---- MODULE Spec2Model ----
(***************************************************************************)
(* The handbook agent: the LangGraph state machine of src/src/agent/agent.py *)
(* (classify, retrieve, grade, generate, conversational, off_topic,         *)
(* not_found), its per-thread checkpointed AgentState, and the /ask         *)
(* endpoint of src/src/api/app.py that runs one turn per request.           *)
(*                                                                         *)
(* An AgentState is a Python dict: a function whose domain is the set of    *)
(* keys written so far.  A node returns a partial dict that is merged into  *)
(* it; the checkpointer keeps the latest merged state of every thread id.   *)
(***************************************************************************)
EXTENDS Naturals, Sequences, FiniteSets, TLC

\* ------------------------------------------------------------------ bounds

\* Turns started over the whole run (all thread ids together).
MaxTurns == 2

\* ------------------------------------------------------- inputs and outcomes

\* The workers of the server's thread pool (ask is a sync endpoint): each
\* serves one request at a time, so two requests may be in flight together.
Requests == {"r1", "r2"}

\* The thread_id a caller gives to /ask; Omitted is a body without thread_id.
Omitted == "<omitted>"
AskThreadIds == {Omitted, "t1"}

\* Questions a caller asks: a short follow-up.
Questions == {"go deeper"}

\* What the classifier capability produces: a label, a label outside the
\* schema, or an error.
Intents == {"conversational", "handbook", "off_topic"}
OutOfRange == "smalltalk"
Raised == "<raised>"
ClassifierOutcomes == Intents \cup {OutOfRange, Raised}

\* What the retriever returns: a list of passages.
RetrieverResults == {<<"p1">>, <<"p2">>}

\* What the language model replies.
Replies == {"a1", "a2"}

\* ------------------------------------------------------------- constants

OFF_TOPIC_REPLY == "I can only answer questions about the Agile Lab company handbook."
NOT_FOUND_REPLY == "I couldn't find relevant information about this in the Agile Lab handbook."

START == "__start__"
END == "__end__"

\* HandbookAgent.__init__: thread_id = "1"
SelfThreadId == "1"
\* AskRequest.thread_id: default = "default"
DefaultThreadId == "default"

\* ------------------------------------------------------------- messages

HumanMessage(content, id) == [type |-> "human", content |-> content, id |-> id]
AIMessage(content, id) == [type |-> "ai", content |-> content, id |-> id]

RECURSIVE IndexOfId(_, _, _)
\* The position in msgs (from i on) of the message with this id, 0 if none.
IndexOfId(msgs, id, i) ==
    IF i > Len(msgs) THEN 0
    ELSE IF msgs[i].id = id THEN i
    ELSE IndexOfId(msgs, id, i + 1)

\* AgentState.messages without its reducer: the returned list replaces the
\* stored one.
add_messages_replace(left, right) == right

RECURSIVE add_messages(_, _)
\* The reducer of AgentState.messages: a message of right whose id is already
\* in left replaces that message in place, any other is appended.
add_messages(left, right) ==
    IF right = <<>> THEN left
    ELSE LET m == Head(right)
             i == IndexOfId(left, m.id, 1)
             merged == IF i = 0 THEN Append(left, m)
                       ELSE [left EXCEPT ![i] = m]
         IN  add_messages(merged, Tail(right))

\* ------------------------------------------------------------ AgentState

\* The state of a thread id that has no checkpoint yet: no key is set.
EmptyState == [k \in {} |-> 0]

Has(state, key) == key \in DOMAIN state

Messages(state) == IF Has(state, "messages") THEN state.messages ELSE <<>>

\* A merge that keeps only the keys the node returned.
MergeUpdateOverwrite(state, update) == update

\* LangGraph's merge of a partial dict into the state: `messages` goes
\* through its reducer, every other returned key replaces the stored value,
\* keys not returned keep theirs.
MergeUpdate(state, update) ==
    [k \in (DOMAIN state) \cup (DOMAIN update) |->
        IF k \in DOMAIN update
        THEN IF k = "messages"
             THEN add_messages(Messages(state), update.messages)
             ELSE update[k]
        ELSE state[k]]

RECURSIVE LastHumanFrom(_, _)
LastHumanFrom(msgs, i) ==
    IF msgs[i].type = "human" THEN msgs[i] ELSE LastHumanFrom(msgs, i - 1)

\* next(m for m in reversed(state["messages"]) if isinstance(m, HumanMessage))
LastHuman(state) == LastHumanFrom(state.messages, Len(state.messages))

\* ----------------------------------------------------------------- nodes
\* Each node as the partial dict it returns, given what its capability gave.

\* An IntentResult whose intent is declared str: every label validates.
IntentResultAnyStr(raw) == TRUE

\* IntentResult: the schema accepts the three labels only; anything else
\* fails validation inside the classifier call.
IntentResultValid(raw) == raw \in Intents

\* _classify leaving an intent the thread already holds as it is.
ClassifyNodeKeep(state, intent) ==
    IF Has(state, "intent") THEN [intent |-> state.intent] ELSE [intent |-> intent]

ClassifyNode(state, intent) == [intent |-> intent]

\* The query the retriever is invoked with.
RetrieveQuery(state) == LastHuman(state).content

\* _retrieve keeping the passages the thread already holds.
RetrieveNodeKeep(state, documents) ==
    IF Has(state, "documents") THEN [documents |-> state.documents]
    ELSE [documents |-> documents]

RetrieveNode(state, documents) == [documents |-> documents]

\* Grader.__call__: the GraderState its one-node graph ends with.
GraderCall(question, documents, result) ==
    [question |-> question, documents |-> documents, document_relevance |-> result]

GradeNode(state, result) ==
    LET grader_result == GraderCall(LastHuman(state).content, state.documents, result)
    IN  [relevant |-> grader_result.document_relevance]

GenerateNode(state, response) ==
    [messages |-> <<response>>, answer |-> response.content]

ConversationalNode(state, response) ==
    [messages |-> <<response>>, answer |-> response.content]

\* _off_topic returning its message without `answer`.
OffTopicNodeNoAnswer(state, id) ==
    [messages |-> <<AIMessage(OFF_TOPIC_REPLY, id)>>]

OffTopicNode(state, id) ==
    [messages |-> <<AIMessage(OFF_TOPIC_REPLY, id)>>, answer |-> OFF_TOPIC_REPLY]

\* _not_found answering with the other template than the one it appends.
NotFoundNodeMismatch(state, id) ==
    [messages |-> <<AIMessage(NOT_FOUND_REPLY, id)>>, answer |-> OFF_TOPIC_REPLY]

NotFoundNode(state, id) ==
    [messages |-> <<AIMessage(NOT_FOUND_REPLY, id)>>, answer |-> NOT_FOUND_REPLY]

\* --------------------------------------------------------------- routers

\* _route_intent without its off_topic test.
RouteIntentNoOffTopic(state) ==
    LET intent == IF Has(state, "intent") THEN state.intent ELSE "handbook"
    IN  IF intent = "conversational" THEN "conversational" ELSE "retrieve"

\* _route_intent sending a thread that already holds documents to retrieve.
RouteIntentReuse(state) ==
    LET intent == IF Has(state, "intent") THEN state.intent ELSE "handbook"
    IN  IF Has(state, "documents") THEN "retrieve"
        ELSE IF intent = "conversational" THEN "conversational"
        ELSE IF intent = "off_topic" THEN "off_topic"
        ELSE "retrieve"

\* state.get("intent", "handbook"), then the two tests.
RouteIntent(state) ==
    LET intent == IF Has(state, "intent") THEN state.intent ELSE "handbook"
    IN  IF intent = "conversational" THEN "conversational"
        ELSE IF intent = "off_topic" THEN "off_topic"
        ELSE "retrieve"

\* _route_grade with its test inverted.
RouteGradeInverted(state) == IF state.relevant THEN "not_found" ELSE "generate"

RouteGrade(state) == IF state.relevant THEN "generate" ELSE "not_found"

\* ----------------------------------------------------------------- graph

Nodes == {"classify", "retrieve", "grade", "generate", "conversational",
          "off_topic", "not_found"}

\* The graph with retrieve wired straight to generate.
EdgesNoGrade ==
    {<<START, "classify">>, <<"retrieve", "generate">>, <<"generate", END>>,
     <<"conversational", END>>, <<"off_topic", END>>, <<"not_found", END>>}

Edges == {<<START, "classify">>, <<"retrieve", "grade">>, <<"generate", END>>,
          <<"conversational", END>>, <<"off_topic", END>>, <<"not_found", END>>}

\* The path maps of the two add_conditional_edges calls.
IntentPathMap == [conversational |-> "conversational", retrieve |-> "retrieve",
                  off_topic |-> "off_topic"]
\* The path map of grade with its two targets swapped.
GradePathMapSwapped == [generate |-> "not_found", not_found |-> "generate"]

GradePathMap == [generate |-> "generate", not_found |-> "not_found"]

\* Where the direct edge out of a node leads.
EdgeTarget(node) == CHOOSE m \in Nodes \cup {END} : <<node, m>> \in Edges

\* -------------------------------------------------------------- requests

\* AskRequest: a body without thread_id gets the field's default.
AskRequestThreadId(given) == IF given = Omitted THEN DefaultThreadId ELSE given

\* HandbookAgent.__call__ ignoring the thread_id it is given.
ConfigThreadIdFixed(thread_id) == SelfThreadId

\* HandbookAgent.__call__: thread_id or self.thread_id
ConfigThreadId(thread_id) == IF thread_id = "" THEN SelfThreadId ELSE thread_id

ThreadIds == {ConfigThreadId(AskRequestThreadId(t)) : t \in AskThreadIds}

\* The input HandbookAgent.__call__ hands to graph.invoke.
InvokeInput(question, id) ==
    [messages |-> <<HumanMessage(question, id)>>, source |-> "handbook"]

\* What HandbookAgent.__call__ returns from the final state: the pair
\* (result["answer"], result.get("source", "handbook")).
CallResult(result) ==
    <<result.answer, IF Has(result, "source") THEN result.source ELSE "handbook">>

\* The ids given to the messages of the n-th turn started (fresh, as uuids are).
HumanId(n) == 2 * n - 1
AiId(n) == 2 * n

\* The pool hands a request to its first idle worker.
FirstIdle(busy) == IF "r1" \notin busy THEN "r1" ELSE "r2"

NoResponse == [status |-> 0]

\* What a request's turn did: its number and question, the nodes it executed
\* in order, what each node's capability gave it, the writes to `answer`
\* (node and value), the thread's messages before it began, and the node
\* that raised, if one did.
None == "<none>"
NoEval == [op |-> None]
NoTurn == [n |-> 0, question |-> "", path |-> <<>>, got |-> <<>>,
           writes |-> <<>>, before |-> <<>>, raised |-> None]

VARIABLES
    lifespan,     \* "created", "serving", "closed": where app.py's lifespan is
    resources,    \* the keys of app.py's resources dict
    checkpoints,  \* thread id -> the latest AgentState the checkpointer holds
    turns,        \* turns started so far
    asked,        \* turn number -> the thread_id its request gave
    pc,           \* request -> "idle", or the node or router its turn is at
    thr,          \* request -> the thread id its turn runs on
    chan,         \* request -> the AgentState of its running graph.invoke
    resp,         \* request -> the HTTP response it last got
    turn,         \* request -> what its current (or last) turn did
    eval          \* the last call of an evaluator or node function: inputs, result

vars == <<lifespan, resources, checkpoints, turns, asked, pc, thr, chan, resp, turn,
         eval>>

Init ==
    /\ lifespan = "created"
    /\ resources = {}
    /\ checkpoints = [t \in ThreadIds |-> EmptyState]
    /\ turns = 0
    /\ asked = <<>>
    /\ pc = [r \in Requests |-> "idle"]
    /\ thr = [r \in Requests |-> DefaultThreadId]
    /\ chan = [r \in Requests |-> EmptyState]
    /\ resp = [r \in Requests |-> NoResponse]
    /\ turn = [r \in Requests |-> NoTurn]
    /\ eval = NoEval

\* lifespan, up to its yield: the agent is built and stored.
Startup ==
    /\ lifespan = "created"
    /\ lifespan' = "serving"
    /\ resources' = resources \cup {"agent"}
    /\ UNCHANGED <<checkpoints, turns, asked, pc, thr, chan, resp, turn, eval>>

\* lifespan, after its yield: the server has drained its requests;
\* resources.clear() drops the agent and with it the MemorySaver it owns.
Shutdown ==
    /\ lifespan = "serving"
    /\ \A r \in Requests : pc[r] = "idle"
    /\ lifespan' = "closed"
    /\ resources' = {}
    /\ checkpoints' = [t \in ThreadIds |-> EmptyState]
    /\ UNCHANGED <<turns, asked, pc, thr, chan, resp, turn, eval>>

\* GET /health answering ready whatever resources holds.
HealthAlwaysReady == [status |-> "ok", agent_ready |-> TRUE]

\* GET /health: agent_ready is whether resources holds the agent.
Health == [status |-> "ok", agent_ready |-> "agent" \in resources]

\* ask, when the agent is not in resources: HTTP 503.
AskNotReady(r) ==
    /\ pc[r] = "idle"
    /\ r = FirstIdle({w \in Requests : pc[w] # "idle"})
    /\ "agent" \notin resources
    /\ resp' = [resp EXCEPT ![r] = [status |-> 503]]
    /\ UNCHANGED <<lifespan, resources, checkpoints, turns, asked, pc, thr, chan,
                   turn, eval>>

\* ask holding one lock for the whole of a turn: a turn starts only when no
\* other is running.
AskGlobalLock(r, question, thread_id) ==
    /\ \A w \in Requests : pc[w] = "idle"
    /\ r = FirstIdle({w \in Requests : pc[w] # "idle"})
    /\ "agent" \in resources
    /\ turns < MaxTurns
    /\ LET tid == ConfigThreadId(AskRequestThreadId(thread_id))
           n == turns + 1
           state == MergeUpdate(checkpoints[tid], InvokeInput(question, HumanId(n)))
       IN  /\ turns' = n
           /\ asked' = Append(asked, thread_id)
           /\ thr' = [thr EXCEPT ![r] = tid]
           /\ chan' = [chan EXCEPT ![r] = state]
           /\ checkpoints' = [checkpoints EXCEPT ![tid] = state]
           /\ pc' = [pc EXCEPT ![r] = EdgeTarget(START)]
           /\ resp' = [resp EXCEPT ![r] = NoResponse]
           /\ turn' = [turn EXCEPT ![r] =
                         [NoTurn EXCEPT !.n = n, !.question = question,
                                        !.before = Messages(checkpoints[tid])]]
    /\ UNCHANGED <<lifespan, resources, eval>>

\* ask -> HandbookAgent.__call__ -> graph.invoke, up to the first node: the
\* thread's checkpoint is loaded, the input merged into it and saved.
Ask(r, question, thread_id) ==
    /\ pc[r] = "idle"
    /\ r = FirstIdle({w \in Requests : pc[w] # "idle"})
    /\ "agent" \in resources
    /\ turns < MaxTurns
    /\ LET tid == ConfigThreadId(AskRequestThreadId(thread_id))
           n == turns + 1
           state == MergeUpdate(checkpoints[tid], InvokeInput(question, HumanId(n)))
       IN  /\ turns' = n
           /\ asked' = Append(asked, thread_id)
           /\ thr' = [thr EXCEPT ![r] = tid]
           /\ chan' = [chan EXCEPT ![r] = state]
           /\ checkpoints' = [checkpoints EXCEPT ![tid] = state]
           /\ pc' = [pc EXCEPT ![r] = EdgeTarget(START)]
           /\ resp' = [resp EXCEPT ![r] = NoResponse]
           /\ turn' = [turn EXCEPT ![r] =
                         [NoTurn EXCEPT !.n = n, !.question = question,
                                        !.before = Messages(checkpoints[tid])]]
    /\ UNCHANGED <<lifespan, resources, eval>>

\* A node's checkpoint saved without the thread id in its key.
NodeDoneShared(r, node, got, update, next) ==
    LET state == MergeUpdate(chan[r], update)
    IN  /\ chan' = [chan EXCEPT ![r] = state]
        /\ checkpoints' = [t \in ThreadIds |-> state]
        /\ pc' = [pc EXCEPT ![r] = next]
        /\ turn' = [turn EXCEPT ![r].path = Append(@, node),
                                ![r].got = Append(@, got)]
        /\ UNCHANGED <<lifespan, resources, turns, asked, thr, resp, eval>>

\* A node, given `got` by its capability, returned `update`: it is merged
\* into the running state, the merged state is checkpointed, and the turn
\* moves to `next`.
NodeDone(r, node, got, update, next) ==
    LET state == MergeUpdate(chan[r], update)
    IN  /\ chan' = [chan EXCEPT ![r] = state]
        /\ checkpoints' = [checkpoints EXCEPT ![thr[r]] = state]
        /\ pc' = [pc EXCEPT ![r] = next]
        /\ turn' = [turn EXCEPT ![r].path = Append(@, node),
                                ![r].got = Append(@, got),
                                ![r].writes = IF Has(update, "answer")
                                              THEN Append(@, [node |-> node,
                                                              answer |-> update.answer])
                                              ELSE @]
        /\ UNCHANGED <<lifespan, resources, turns, asked, thr, resp, eval>>

\* ask answering a failed turn with the not-found template instead of 500.
NodeRaisedFallback(r, node, got) ==
    /\ pc' = [pc EXCEPT ![r] = "idle"]
    /\ chan' = [chan EXCEPT ![r] = EmptyState]
    /\ resp' = [resp EXCEPT ![r] = [status |-> 200, answer |-> NOT_FOUND_REPLY,
                                    source |-> "handbook",
                                    question |-> turn[r].question]]
    /\ turn' = [turn EXCEPT ![r].path = Append(@, node),
                            ![r].got = Append(@, got),
                            ![r].raised = node]
    /\ UNCHANGED <<lifespan, resources, checkpoints, turns, asked, thr, eval>>

\* A node raised after its capability gave `got`: graph.invoke raises and
\* ask answers HTTP 500 with the exception's message.
NodeRaised(r, node, got) ==
    /\ pc' = [pc EXCEPT ![r] = "idle"]
    /\ chan' = [chan EXCEPT ![r] = EmptyState]
    /\ resp' = [resp EXCEPT ![r] = [status |-> 500, detail |-> node]]
    /\ turn' = [turn EXCEPT ![r].path = Append(@, node),
                            ![r].got = Append(@, got),
                            ![r].raised = node]
    /\ UNCHANGED <<lifespan, resources, checkpoints, turns, asked, thr, eval>>

Classify(r) ==
    /\ pc[r] = "classify"
    /\ \E out \in ClassifierOutcomes :
         IF out # Raised /\ IntentResultValid(out)
         THEN NodeDone(r, "classify", out, ClassifyNode(chan[r], out), "route_intent")
         ELSE NodeRaised(r, "classify", out)

\* The conditional edge out of classify.
RouteIntentStep(r) ==
    /\ pc[r] = "route_intent"
    /\ pc' = [pc EXCEPT ![r] = IntentPathMap[RouteIntent(chan[r])]]
    /\ UNCHANGED <<lifespan, resources, checkpoints, turns, asked, thr, chan, resp,
                   turn, eval>>

Retrieve(r) ==
    /\ pc[r] = "retrieve"
    /\ \/ \E documents \in RetrieverResults :
            NodeDone(r, "retrieve", documents, RetrieveNode(chan[r], documents),
                     EdgeTarget("retrieve"))
       \/ NodeRaised(r, "retrieve", Raised)

\* _grade catching the grader's exception and going on with relevant = False.
GradeDefaultsOnError(r) ==
    /\ pc[r] = "grade"
    /\ \/ \E result \in BOOLEAN :
            NodeDone(r, "grade", result, GradeNode(chan[r], result), "route_grade")
       \/ LET state == MergeUpdate(chan[r], [relevant |-> FALSE])
          IN  /\ chan' = [chan EXCEPT ![r] = state]
              /\ checkpoints' = [checkpoints EXCEPT ![thr[r]] = state]
              /\ pc' = [pc EXCEPT ![r] = "route_grade"]
              /\ turn' = [turn EXCEPT ![r].path = Append(@, "grade"),
                                      ![r].got = Append(@, Raised),
                                      ![r].raised = "grade"]
              /\ UNCHANGED <<lifespan, resources, turns, asked, thr, resp, eval>>

Grade(r) ==
    /\ pc[r] = "grade"
    /\ \/ \E result \in BOOLEAN :
            NodeDone(r, "grade", result, GradeNode(chan[r], result), "route_grade")
       \/ NodeRaised(r, "grade", Raised)

\* The conditional edge out of grade with no branch for an irrelevant
\* result: the turn has nowhere to go.
RouteGradeStepNoBranch(r) ==
    /\ pc[r] = "route_grade"
    /\ chan[r].relevant
    /\ pc' = [pc EXCEPT ![r] = GradePathMap[RouteGrade(chan[r])]]
    /\ UNCHANGED <<lifespan, resources, checkpoints, turns, asked, thr, chan, resp,
                   turn, eval>>

\* The conditional edge out of grade.
RouteGradeStep(r) ==
    /\ pc[r] = "route_grade"
    /\ pc' = [pc EXCEPT ![r] = GradePathMap[RouteGrade(chan[r])]]
    /\ UNCHANGED <<lifespan, resources, checkpoints, turns, asked, thr, chan, resp,
                   turn, eval>>

Generate(r) ==
    /\ pc[r] = "generate"
    /\ \/ \E content \in Replies :
            NodeDone(r, "generate", content,
                     GenerateNode(chan[r], AIMessage(content, AiId(turn[r].n))),
                     EdgeTarget("generate"))
       \/ NodeRaised(r, "generate", Raised)

Conversational(r) ==
    /\ pc[r] = "conversational"
    /\ \/ \E content \in Replies :
            NodeDone(r, "conversational", content,
                     ConversationalNode(chan[r], AIMessage(content, AiId(turn[r].n))),
                     EdgeTarget("conversational"))
       \/ NodeRaised(r, "conversational", Raised)

\* _off_topic letting a failure while it prepares its reply abort the turn.
OffTopicMayRaise(r) ==
    /\ pc[r] = "off_topic"
    /\ \/ NodeDone(r, "off_topic", None, OffTopicNode(chan[r], AiId(turn[r].n)),
                   EdgeTarget("off_topic"))
       \/ NodeRaised(r, "off_topic", Raised)

OffTopic(r) ==
    /\ pc[r] = "off_topic"
    /\ NodeDone(r, "off_topic", None, OffTopicNode(chan[r], AiId(turn[r].n)),
                EdgeTarget("off_topic"))

NotFound(r) ==
    /\ pc[r] = "not_found"
    /\ NodeDone(r, "not_found", None, NotFoundNode(chan[r], AiId(turn[r].n)),
                EdgeTarget("not_found"))

\* The AskResponse built from what HandbookAgent.__call__ returned.
AskResponse(result, question) ==
    [status |-> 200, answer |-> result[1], source |-> result[2], question |-> question]

\* graph.invoke returns its final state, HandbookAgent.__call__ the pair
\* (answer, source), and ask the HTTP 200 response; a final state without
\* `answer` is a KeyError, which ask turns into HTTP 500.
Return(r) ==
    /\ pc[r] = END
    /\ pc' = [pc EXCEPT ![r] = "idle"]
    /\ resp' = [resp EXCEPT ![r] =
                  IF Has(chan[r], "answer")
                  THEN AskResponse(CallResult(chan[r]), turn[r].question)
                  ELSE [status |-> 500, detail |-> "answer"]]
    /\ chan' = [chan EXCEPT ![r] = EmptyState]
    /\ UNCHANGED <<lifespan, resources, checkpoints, turns, asked, thr, turn, eval>>

Next ==
    \/ Startup
    \/ Shutdown
    \/ \E r \in Requests : AskNotReady(r)
    \/ \E r \in Requests, q \in Questions, t \in AskThreadIds : Ask(r, q, t)
    \/ \E r \in Requests : Classify(r)
    \/ \E r \in Requests : RouteIntentStep(r)
    \/ \E r \in Requests : Retrieve(r)
    \/ \E r \in Requests : Grade(r)
    \/ \E r \in Requests : RouteGradeStep(r)
    \/ \E r \in Requests : Generate(r)
    \/ \E r \in Requests : Conversational(r)
    \/ \E r \in Requests : OffTopic(r)
    \/ \E r \in Requests : NotFound(r)
    \/ \E r \in Requests : Return(r)

Spec == Init /\ [][Next]_vars

\* No two requests in flight run on the same thread id.
Serialized ==
    \A r1, r2 \in Requests :
        (r1 # r2 /\ pc[r1] # "idle" /\ pc[r2] # "idle") => thr[r1] # thr[r2]

\* The runs in which the turns of each thread id come one after another
\* (turns on different thread ids still overlap).
AskSeq(r, question, thread_id) == Ask(r, question, thread_id) /\ Serialized'

NextSeq ==
    \/ Startup
    \/ Shutdown
    \/ \E r \in Requests : AskNotReady(r)
    \/ \E r \in Requests, q \in Questions, t \in AskThreadIds : AskSeq(r, q, t)
    \/ \E r \in Requests : Classify(r)
    \/ \E r \in Requests : RouteIntentStep(r)
    \/ \E r \in Requests : Retrieve(r)
    \/ \E r \in Requests : Grade(r)
    \/ \E r \in Requests : RouteGradeStep(r)
    \/ \E r \in Requests : Generate(r)
    \/ \E r \in Requests : Conversational(r)
    \/ \E r \in Requests : OffTopic(r)
    \/ \E r \in Requests : NotFound(r)
    \/ \E r \in Requests : Return(r)

SpecSeq == Init /\ [][NextSeq]_vars

\* The nodes in which a turn waits for a capability to return.
CapabilityNodes == {"classify", "retrieve", "grade", "generate", "conversational"}

\* The next step of a request's running turn: the node or router it is at,
\* or the return of its response.
TurnStep(r) ==
    \/ Classify(r)
    \/ RouteIntentStep(r)
    \/ Retrieve(r)
    \/ Grade(r)
    \/ RouteGradeStep(r)
    \/ Generate(r)
    \/ Conversational(r)
    \/ OffTopic(r)
    \/ NotFound(r)
    \/ Return(r)

\* Where a worker is when the capability it called never returns.
Hung == "<hung>"

\* A capability call that never returns: no timeout is set on the classifier,
\* the retriever, the grader or the model, and graph.invoke has none, so the
\* worker stays blocked in the call.
CapabilityHangs(r) ==
    /\ pc[r] \in CapabilityNodes
    /\ pc' = [pc EXCEPT ![r] = Hung]
    /\ UNCHANGED <<lifespan, resources, checkpoints, turns, asked, thr, chan, resp,
                   turn, eval>>

\* The worker that serves every request when requests come one at a time.
Worker == FirstIdle({})

\* The runs in which requests come one at a time, where a capability call
\* may also never return.
NextLive ==
    \/ Startup
    \/ Shutdown
    \/ AskNotReady(Worker)
    \/ \E q \in Questions, t \in AskThreadIds : Ask(Worker, q, t)
    \/ TurnStep(Worker)
    \/ CapabilityHangs(Worker)

\* The worker's thread is scheduled: a turn whose next step can be taken (its
\* capability call returns, with a value or an error) takes it.
Fairness == WF_vars(TurnStep(Worker))

SpecLive == Init /\ [][NextLive]_vars /\ Fairness

\* ------------------------------------------------------------ vocabulary

IsPrefix(s, t) ==
    /\ Len(s) <= Len(t)
    /\ \A i \in 1..Len(s) : s[i] = t[i]

Last(s) == s[Len(s)]

\* The request's turn ran to END and its response went out as HTTP 200.
Completed(r) == pc[r] = "idle" /\ resp[r].status = 200

TerminalNodes == {"generate", "conversational", "off_topic", "not_found"}

HandbookPaths == {<<"classify", "retrieve", "grade", "generate">>,
                  <<"classify", "retrieve", "grade", "not_found">>}

TurnPaths == {<<"classify", "conversational">>, <<"classify", "off_topic">>}
                 \cup HandbookPaths

\* ----------------------------------------------------------------- claims

\* C1: over the turns run one after another on a thread id, the thread's
\* messages only grow: every message that was there before a turn began is
\* still there, at the same position, during and after it.
C1_MessagesAppendOnly ==
    \A r \in Requests :
        (lifespan = "serving" /\ turn[r].n > 0) =>
            LET now == Messages(checkpoints[thr[r]])
            IN  /\ Len(now) >= Len(turn[r].before)
                /\ IsPrefix(turn[r].before, now)

\* A turn completed on a thread that already held the two messages of an
\* earlier turn, and added its own two.
C1_Witness ==
    \E r \in Requests :
        /\ lifespan = "serving"
        /\ Completed(r)
        /\ Len(turn[r].before) = 2
        /\ Len(Messages(checkpoints[thr[r]])) = 4

\* C2: the nodes a turn executes are, in order, a prefix of one of the four
\* paths, and exactly one of the four once the turn has reached END; so no
\* node runs twice in a turn and no turn runs more than four nodes.
C2_OnePathPerTurn ==
    \A r \in Requests :
        LET path == turn[r].path
        IN  /\ \E p \in TurnPaths : IsPrefix(path, p)
            /\ Len(path) <= 4
            /\ \A i, j \in 1..Len(path) : i # j => path[i] # path[j]
            /\ (pc[r] = END \/ Completed(r)) => path \in TurnPaths

\* Two turns have completed, one on the two-node conversational path and
\* one on the four-node generate path.
C2_Witness ==
    \E r1, r2 \in Requests :
        /\ Completed(r1) /\ turn[r1].path = <<"classify", "conversational">>
        /\ Completed(r2)
        /\ turn[r2].path = <<"classify", "retrieve", "grade", "generate">>

\* The node a turn runs right after classify, once that is decided: the
\* second node of its path, or the node it is about to run.
AfterClassify(r) ==
    IF Len(turn[r].path) >= 2 THEN turn[r].path[2]
    ELSE IF Len(turn[r].path) = 1 /\ pc[r] \notin {"idle", "route_intent"} THEN pc[r]
    ELSE None

\* C3: the node run right after classify is conversational exactly when the
\* classifier returned conversational, off_topic exactly when it returned
\* off_topic, and retrieve exactly when it returned handbook.
C3_IntentRouting ==
    \A r \in Requests :
        AfterClassify(r) # None =>
            /\ AfterClassify(r) = "conversational" <=> turn[r].got[1] = "conversational"
            /\ AfterClassify(r) = "off_topic" <=> turn[r].got[1] = "off_topic"
            /\ AfterClassify(r) = "retrieve" <=> turn[r].got[1] = "handbook"

\* Three routing decisions are on record at once: a turn that went to
\* off_topic has completed and another is about to run retrieve.
C3_Witness ==
    \E r1, r2 \in Requests :
        /\ Completed(r1) /\ AfterClassify(r1) = "off_topic"
        /\ turn[r1].got[1] = "off_topic"
        /\ pc[r2] = "retrieve" /\ AfterClassify(r2) = "retrieve"
        /\ turn[r2].got[1] = "handbook"

\* The node a turn runs right after grade, once that is decided.
AfterGrade(r) ==
    IF Len(turn[r].path) >= 4 THEN turn[r].path[4]
    ELSE IF Len(turn[r].path) = 3 /\ pc[r] \notin {"idle", "route_grade"} THEN pc[r]
    ELSE None

\* C4: in a turn that reached grade, the node run right after grade is
\* generate exactly when the grader returned true and not_found exactly when
\* it returned false; and generate or not_found run only in a turn whose
\* third node was grade.
C4_GradeRouting ==
    \A r \in Requests :
        /\ AfterGrade(r) # None =>
              /\ turn[r].path[3] = "grade"
              /\ AfterGrade(r) = "generate" <=> turn[r].got[3] = TRUE
              /\ AfterGrade(r) = "not_found" <=> turn[r].got[3] = FALSE
        /\ \A i \in 1..Len(turn[r].path) :
              turn[r].path[i] \in {"generate", "not_found"} =>
                  i = 4 /\ turn[r].path[3] = "grade"
        /\ pc[r] \in {"generate", "not_found"} =>
              Len(turn[r].path) = 3 /\ turn[r].path[3] = "grade"

\* A turn whose grader said false has completed through not_found while
\* another, whose grader said true, is about to run generate.
C4_Witness ==
    \E r1, r2 \in Requests :
        /\ Completed(r1) /\ AfterGrade(r1) = "not_found" /\ turn[r1].got[3] = FALSE
        /\ pc[r2] = "generate" /\ AfterGrade(r2) = "generate" /\ turn[r2].got[3] = TRUE

\* Every conversation-state snapshot the system holds: the running state of
\* each turn and the checkpoint of each thread id.
Snapshots == {chan[r] : r \in Requests} \cup {checkpoints[t] : t \in ThreadIds}

\* Two snapshots with the same intent get the same decision after classify,
\* two with the same relevant the same decision after grade; and each gets
\* the decision of the snapshot that holds nothing but that field.
RoutersAgree ==
    /\ \A s1, s2 \in Snapshots :
        /\ (Has(s1, "intent") /\ Has(s2, "intent") /\ s1.intent = s2.intent)
              => RouteIntent(s1) = RouteIntent(s2)
        /\ (Has(s1, "relevant") /\ Has(s2, "relevant") /\ s1.relevant = s2.relevant)
              => RouteGrade(s1) = RouteGrade(s2)
    /\ \A s \in Snapshots :
        /\ Has(s, "intent") => RouteIntent(s) = RouteIntent([intent |-> s.intent])
        /\ Has(s, "relevant") => RouteGrade(s) = RouteGrade([relevant |-> s.relevant])

\* A step that evaluates a routing decision.
RoutingStep ==
    \E r \in Requests : pc[r] \in {"route_intent", "route_grade"} /\ pc'[r] # pc[r]

\* C5: router determinism: in every state a step leads to, the decision
\* after classify depends on `intent` alone and the decision after grade on
\* `relevant` alone, whatever the other fields hold, and a step that
\* evaluates a decision changes no field of any state.
C5_RouterDeterminism ==
    [][/\ RoutersAgree'
       /\ RoutingStep => UNCHANGED <<chan, checkpoints>>]_vars

\* Two snapshots agree on intent and on relevant, differ in their messages
\* and their documents, and a turn has just been routed after grade.
C5_Witness ==
    \E s1, s2 \in Snapshots :
        /\ Has(s1, "relevant") /\ Has(s2, "relevant")
        /\ s1.intent = s2.intent /\ s1.relevant = s2.relevant
        /\ s1.messages # s2.messages
        /\ s1.documents # s2.documents
        /\ \E r \in Requests : chan[r] = s1 /\ Len(turn[r].path) = 3
                                 /\ pc[r] \in {"generate", "not_found"}

\* C6: a turn that took the path classify, conversational returns
\* source = conversational to its caller.
C6_ConversationalSource ==
    \A r \in Requests :
        (Completed(r) /\ turn[r].path = <<"classify", "conversational">>)
            => resp[r].source = "conversational"

\* C7: a turn that ended in off_topic and a turn that ended in not_found
\* return different source labels.
C7_DeflectionsDistinct ==
    \A r1, r2 \in Requests :
        (/\ Completed(r1) /\ Last(turn[r1].path) = "off_topic"
         /\ Completed(r2) /\ Last(turn[r2].path) = "not_found")
            => resp[r1].source # resp[r2].source

\* C8: a turn on the handbook path returns source = handbook, and when it
\* reaches END the thread's persisted state holds relevant = true on the
\* generate path and relevant = false on the not_found path.
C8_HandbookPath ==
    \A r \in Requests :
        /\ (pc[r] = END /\ turn[r].path \in HandbookPaths) =>
              /\ Has(checkpoints[thr[r]], "relevant")
              /\ checkpoints[thr[r]].relevant = (Last(turn[r].path) = "generate")
              /\ CallResult(chan[r])[2] = "handbook"
        /\ (Completed(r) /\ turn[r].path \in HandbookPaths) =>
              resp[r].source = "handbook"

\* A generate turn has returned handbook while a not_found turn stands at
\* END with relevant = false persisted.
C8_Witness ==
    \E r1, r2 \in Requests :
        /\ Completed(r1) /\ Last(turn[r1].path) = "generate"
        /\ resp[r1].source = "handbook"
        /\ pc[r2] = END /\ Last(turn[r2].path) = "not_found"
        /\ checkpoints[thr[r2]].relevant = FALSE

\* C9: at the end of every turn, documents and relevant are populated in
\* the thread's state exactly when that turn took the handbook path.
C9_TurnScopedFields ==
    \A r \in Requests :
        pc[r] = END =>
            /\ Has(checkpoints[thr[r]], "documents") <=> turn[r].path \in HandbookPaths
            /\ Has(checkpoints[thr[r]], "relevant") <=> turn[r].path \in HandbookPaths

\* C10: a turn writes `answer` at most once, only in one of the four final
\* nodes, exactly once by the time it reaches END, and the answer returned
\* to the caller is the value written in this turn.
C10_OneAnswerPerTurn ==
    \A r \in Requests :
        LET writes == turn[r].writes
        IN  /\ Len(writes) <= 1
            /\ \A i \in 1..Len(writes) :
                  /\ writes[i].node \in TerminalNodes
                  /\ writes[i].node = Last(turn[r].path)
            /\ pc[r] = END =>
                  /\ Len(writes) = 1
                  /\ chan[r].answer = writes[1].answer
            /\ Completed(r) =>
                  /\ Len(writes) = 1
                  /\ resp[r].answer = writes[1].answer

\* A turn has returned its own answer on a thread whose earlier turn had
\* left a different answer in the state.
C10_Witness ==
    \E r \in Requests :
        /\ Completed(r)
        /\ Len(turn[r].before) = 2
        /\ turn[r].before[2].type = "ai"
        /\ turn[r].before[2].content # resp[r].answer
        /\ resp[r].answer = turn[r].writes[1].answer

\* The keys each node returns.
Returned(node) ==
    CASE node = "classify" -> {"intent"}
      [] node = "retrieve" -> {"documents"}
      [] node = "grade" -> {"relevant"}
      [] node \in TerminalNodes -> {"messages", "answer"}

\* Request r's turn executes a node to completion in this step.
Executes(r) ==
    /\ Len(turn'[r].path) = Len(turn[r].path) + 1
    /\ turn'[r].raised = None

\* C11: merging a node's partial update leaves every field the node did not
\* return unchanged: classify changes only intent, retrieve only documents,
\* grade only relevant, and each final node only messages, by appending one
\* assistant message, and answer, by replacing it with that message's text.
C11_PartialUpdateFrame ==
    [][\A r \in Requests :
          Executes(r) =>
              LET node == Last(turn'[r].path)
                  old == chan[r]
                  new == chan'[r]
              IN  /\ DOMAIN new = DOMAIN old \cup Returned(node)
                  /\ \A k \in DOMAIN old \ Returned(node) : new[k] = old[k]
                  /\ node \in TerminalNodes =>
                        /\ Len(new.messages) = Len(old.messages) + 1
                        /\ IsPrefix(old.messages, new.messages)
                        /\ Last(new.messages).type = "ai"
                        /\ new.answer = Last(new.messages).content]_vars

\* A final node has replaced the answer an earlier turn left in the thread,
\* with the intent, documents and relevant of the state still in place.
C11_Witness ==
    \E r \in Requests :
        /\ pc[r] = END
        /\ Last(turn[r].path) = "generate"
        /\ Len(turn[r].before) = 2
        /\ chan[r].answer # turn[r].before[2].content
        /\ chan[r].intent = "handbook" /\ chan[r].relevant
        /\ Has(chan[r], "documents")
        /\ Len(chan[r].messages) = 4

\* C12: a successful turn grows the thread's messages by exactly two
\* entries, its user message followed by one assistant message, and the text
\* of that assistant message is the answer returned for the turn, whichever
\* final node produced it.
C12_TurnAddsTwoMessages ==
    \A r \in Requests :
        LET ms == Messages(checkpoints[thr[r]])
            user == HumanMessage(turn[r].question, HumanId(turn[r].n))
        IN  /\ pc[r] = END =>
                  /\ Len(ms) = Len(turn[r].before) + 2
                  /\ IsPrefix(turn[r].before, ms)
                  /\ ms[Len(ms) - 1] = user
                  /\ ms[Len(ms)].type = "ai"
                  /\ ms[Len(ms)].content = CallResult(chan[r])[1]
            /\ Completed(r) /\ lifespan = "serving" =>
                  \E i \in 1..(Len(ms) - 1) :
                      /\ i = Len(turn[r].before) + 1
                      /\ ms[i] = user
                      /\ ms[i + 1] = AIMessage(resp[r].answer, AiId(turn[r].n))

\* A turn ending in not_found has completed on a thread whose earlier turn
\* ended in another final node.
C12_Witness ==
    \E r \in Requests :
        /\ Completed(r)
        /\ Last(turn[r].path) = "not_found"
        /\ Len(turn[r].before) = 2
        /\ turn[r].before[2].content # NOT_FOUND_REPLY
        /\ Len(Messages(checkpoints[thr[r]])) = 4
        /\ resp[r].answer = NOT_FOUND_REPLY

\* The thread a turn runs on, from the thread_id its request gave.
ThreadOf(given) == ConfigThreadId(AskRequestThreadId(given))

\* The turn that created a message, from the message's id.
TurnOfId(id) == (id + 1) \div 2

\* Request r takes a step of its turn.
Steps(r) == pc'[r] # pc[r]

\* C13: turns on different thread ids are isolated. A step of a turn leaves
\* the persisted state of every other thread id as it was; the state a turn
\* starts from is its own thread's state plus its input, and the state a
\* node saves is the turn's own running state; so every message a thread
\* holds comes from a turn asked on that thread id.
C13_ThreadIsolation ==
    [][lifespan' = "serving" =>
          /\ \A t \in ThreadIds :
                (\A r \in Requests : Steps(r) => thr'[r] # t)
                    => checkpoints'[t] = checkpoints[t]
          /\ \A r \in Requests :
                turn'[r].n # turn[r].n =>
                    LET mine == checkpoints[thr'[r]]
                    IN  /\ DOMAIN chan'[r] = DOMAIN mine \cup {"messages", "source"}
                        /\ \A k \in DOMAIN mine \ {"messages", "source"} :
                              chan'[r][k] = mine[k]
                        /\ chan'[r].messages =
                              Append(Messages(mine),
                                     HumanMessage(turn'[r].question, HumanId(turn'[r].n)))
          /\ \A r \in Requests :
                Executes(r) => checkpoints'[thr'[r]] = chan'[r]
          /\ \A t \in ThreadIds :
                LET ms == Messages(checkpoints'[t])
                IN  \A i \in 1..Len(ms) : ThreadOf(asked'[TurnOfId(ms[i].id)]) = t]_vars

\* Two turns on different thread ids are in progress at once, each past its
\* classify node, each thread holding only its own turn's message.
C13_Witness ==
    /\ pc["r1"] \notin {"idle", "classify"}
    /\ pc["r2"] \notin {"idle", "classify"}
    /\ thr["r1"] # thr["r2"]
    /\ checkpoints[thr["r1"]] # checkpoints[thr["r2"]]
    /\ Len(Messages(checkpoints[thr["r1"]])) = 1
    /\ Len(Messages(checkpoints[thr["r2"]])) = 1

\* The turn of request r has its user message in ms, immediately followed
\* by the assistant message carrying the answer the request received.
PairIn(r, ms) ==
    \E i \in 1..(Len(ms) - 1) :
        /\ ms[i] = HumanMessage(turn[r].question, HumanId(turn[r].n))
        /\ ms[i + 1] = AIMessage(resp[r].answer, AiId(turn[r].n))

\* Two requests on one thread id have both answered, r1's turn having begun
\* first; r2's began before r1's reply was in the thread.
Overlapped(r1, r2) ==
    /\ Completed(r1) /\ Completed(r2)
    /\ thr[r1] = thr[r2]
    /\ turn[r1].n < turn[r2].n
    /\ \A i \in 1..Len(turn[r2].before) : turn[r2].before[i].id # AiId(turn[r1].n)

\* C14: when two /ask requests with the same thread_id overlap, the thread's
\* messages end up holding both user messages and both assistant messages,
\* four new entries, each user message immediately followed by its reply.
C14_SameThreadSerialized ==
    \A r1, r2 \in Requests :
        Overlapped(r1, r2) /\ lifespan = "serving" =>
            LET ms == Messages(checkpoints[thr[r1]])
            IN  /\ PairIn(r1, ms)
                /\ PairIn(r2, ms)
                /\ Len(ms) = Len(turn[r1].before) + 4

\* The turns up to the n-th whose requests gave the same thread_id as the
\* n-th (all of them omitting it counts as the same).
SameThreadTurns(n) == {k \in 1..n : asked[k] = asked[n]}

Tokens(question) == CASE question = "go deeper" -> 2

\* Request r's turn is a short follow-up: a question of few tokens on a
\* thread that already holds earlier turns.
ShortFollowUp(r) ==
    /\ turn[r].n > 0
    /\ Tokens(turn[r].question) < 4
    /\ Len(turn[r].before) > 0

\* C16: in a handbook-path turn that is a short follow-up, grade does not
\* invoke the grading capability and sets relevant = true, so the turn goes
\* on to generate: it never fails in grade and never reaches not_found.
C16_ShortFollowUpSkipsGrading ==
    \A r \in Requests :
        ShortFollowUp(r) /\ Len(turn[r].path) >= 3 /\ turn[r].path[3] = "grade" =>
            /\ turn[r].raised # "grade"
            /\ turn[r].raised = None => turn[r].got[3] = TRUE
            /\ "not_found" \notin {turn[r].path[i] : i \in 1..Len(turn[r].path)}

\* C17: when the classifier yields an intent outside conversational,
\* handbook and off_topic, or none, the turn fails in classify: no node after
\* classify executes, nothing is routed to retrieve, and the caller gets the
\* failure.
C17_InvalidIntentFails ==
    \A r \in Requests :
        Len(turn[r].path) >= 1 /\ turn[r].got[1] \notin Intents =>
            /\ turn[r].path = <<"classify">>
            /\ turn[r].raised = "classify"
            /\ turn[r].writes = <<>>
            /\ pc[r] = "idle"
            /\ ~Completed(r)
            /\ lifespan = "serving" =>
                  resp[r] = [status |-> 500, detail |-> "classify"]

\* The classifier has answered with a label outside the three intents, on a
\* thread whose earlier turn took the handbook path, and the turn has failed.
C17_Witness ==
    \E r \in Requests :
        /\ turn[r].path = <<"classify">>
        /\ turn[r].got = <<OutOfRange>>
        /\ resp[r].status = 500
        /\ Len(turn[r].before) = 2
        /\ Has(checkpoints[thr[r]], "documents")
        /\ checkpoints[thr[r]].intent = "handbook"

\* The retriever or the grading capability raised in request r's turn.
RetrievalFailed(r) == turn[r].raised \in {"retrieve", "grade"}

\* C18: when the retriever or the grading capability raises, the turn fails
\* there and the caller gets the error: neither generate nor not_found
\* executes, no answer is written, the failing step writes no relevant (or
\* anything else) to the thread, and the response is the failure, never the
\* not-found template.
C18_RetrievalErrorPropagates ==
    [][\A r \in Requests :
          RetrievalFailed(r)' =>
              /\ Last(turn'[r].path) = turn'[r].raised
              /\ turn'[r].path \in {<<"classify", "retrieve">>,
                                    <<"classify", "retrieve", "grade">>}
              /\ turn'[r].writes = <<>>
              /\ pc'[r] = "idle"
              /\ ~Has(chan'[r], "relevant")
              /\ ~RetrievalFailed(r) => checkpoints' = checkpoints
              /\ lifespan' = "serving" =>
                    /\ resp'[r].status = 500
                    /\ resp'[r].detail = turn'[r].raised
                    /\ DOMAIN resp'[r] = {"status", "detail"}]_vars

\* The grading capability has raised in a turn whose thread still holds the
\* relevant = true of an earlier turn, and the request was answered 500.
C18_Witness ==
    \E r \in Requests :
        /\ turn[r].raised = "grade"
        /\ turn[r].path = <<"classify", "retrieve", "grade">>
        /\ resp[r].status = 500
        /\ Has(checkpoints[thr[r]], "relevant")
        /\ checkpoints[thr[r]].relevant
        /\ Len(turn[r].before) = 2

\* C19: a failed turn commits nothing: when a node raises before an answer
\* is produced, the thread's persisted messages are the ones it held before
\* the turn began, without the failed turn's user message.
C19_FailedTurnCommitsNothing ==
    [][\A r \in Requests :
          turn[r].raised = None /\ turn'[r].raised # None =>
              LET ms == Messages(checkpoints'[thr[r]])
              IN  /\ ms = turn[r].before
                  /\ \A i \in 1..Len(ms) : ms[i].id # HumanId(turn[r].n)]_vars

\* C20: every exception raised while /ask runs a turn comes back as HTTP
\* 500 carrying the exception's message, and a request whose turn raised
\* never gets a response with an answer and a source.
C20_ExceptionsSurfaceAs500 ==
    \A r \in Requests :
        /\ turn[r].raised # None /\ lifespan = "serving" =>
              /\ pc[r] = "idle"
              /\ resp[r].status = 500
              /\ resp[r].detail = turn[r].raised
              /\ DOMAIN resp[r] \cap {"answer", "source"} = {}
        /\ Completed(r) =>
              /\ turn[r].raised = None
              /\ Last(turn[r].path) \in TerminalNodes

\* With two requests in progress, the language capability has raised in
\* generate for one, answered 500, while the other has its answer.
C20_Witness ==
    \E r, w \in Requests :
        /\ turn[r].raised = "generate"
        /\ resp[r].status = 500
        /\ resp[r].detail = "generate"
        /\ Completed(w)
        /\ thr[w] = thr[r]

\* The fixed template of a deflection node.
Template(node) ==
    CASE node = "off_topic" -> OFF_TOPIC_REPLY
      [] node = "not_found" -> NOT_FOUND_REPLY

\* Request r's turn has reached a deflection node.
Deflected(r) ==
    /\ turn[r].path # <<>>
    /\ Last(turn[r].path) \in {"off_topic", "not_found"}

\* C21: deflections are successful turns. A turn that reaches off_topic or
\* not_found never fails there: it writes the node's fixed template as its
\* answer, goes to END, and its request is answered 200 with that template,
\* never with an error.
C21_DeflectionsSucceed ==
    \A r \in Requests :
        Deflected(r) =>
            /\ turn[r].raised = None
            /\ Len(turn[r].writes) = 1
            /\ turn[r].writes[1].answer = Template(Last(turn[r].path))
            /\ pc[r] \in {END, "idle"}
            /\ pc[r] = END => chan[r].answer = Template(Last(turn[r].path))
            /\ pc[r] = "idle" /\ lifespan = "serving" =>
                  /\ resp[r].status = 200
                  /\ resp[r].answer = Template(Last(turn[r].path))

\* Both deflections have been answered: one request got the off-topic
\* template, the other the not-found template, each with status 200.
C21_Witness ==
    \E r, w \in Requests :
        /\ Completed(r) /\ Last(turn[r].path) = "off_topic"
        /\ resp[r].answer = OFF_TOPIC_REPLY
        /\ Completed(w) /\ Last(turn[w].path) = "not_found"
        /\ resp[w].answer = NOT_FOUND_REPLY

\* C23: the health probe reports agent_ready exactly while the agent is
\* initialized and not yet cleared by shutdown; an /ask arriving while it is
\* not ready is answered 503, and no step taken while it is not ready runs
\* a node of a turn, starts a turn or changes a thread's state.
C23_ReadyGate ==
    [][/\ Health.agent_ready' <=> lifespan' = "serving"
       /\ ~Health.agent_ready =>
             /\ UNCHANGED <<checkpoints, turns, asked, pc, chan, turn>>
             /\ \A r \in Requests :
                   resp'[r] # resp[r] => resp'[r].status = 503
       /\ \A r \in Requests :
             resp'[r].status = 503 /\ resp[r].status # 503 =>
                 /\ ~Health.agent_ready
                 /\ UNCHANGED <<checkpoints, turns, asked, pc, chan, turn>>]_vars

\* After shutdown, with the threads' earlier turns answered, a request has
\* been rejected with 503.
C23_Witness ==
    /\ lifespan = "closed"
    /\ ~Health.agent_ready
    /\ turns > 0
    /\ \E r \in Requests : resp[r].status = 503 /\ turn[r].n > 0

\* ------------------------------------- node functions and evaluators
\*
\* The deflection nodes and the evaluators of evaluation/ are functions of
\* their inputs. Each action below draws one input from a bounded set,
\* applies the function and leaves the call, inputs and result, in `eval`;
\* a run is one call.

agentVars == <<lifespan, resources, checkpoints, turns, asked, pc, thr, chan, resp, turn>>

\* User messages in two languages.
UserMessages == {"What is Docker?", "Qu'est-ce que Docker ?"}

\* The language a user message is written in.
LanguageOf(text) ==
    CASE text = "What is Docker?" -> "en"
      [] text = "Qu'est-ce que Docker ?" -> "fr"

\* A deflection node run on a thread that holds the user's message.
Deflect ==
    /\ eval = NoEval
    /\ \E node \in {"off_topic", "not_found"}, question \in UserMessages :
         LET state == MergeUpdate(EmptyState, InvokeInput(question, HumanId(1)))
             update == IF node = "off_topic"
                       THEN OffTopicNode(state, AiId(1))
                       ELSE NotFoundNode(state, AiId(1))
         IN  eval' = [op |-> node, question |-> question, update |-> update]
    /\ UNCHANGED agentVars

\* ---- GraphStructureEvaluator

\* g.edges of the compiled graph: the direct edges and one edge per target
\* of each conditional edge.
GraphEdges ==
    Edges \cup {<<"classify", IntentPathMap[k]>> : k \in DOMAIN IntentPathMap}
          \cup {<<"grade", GradePathMap[k]>> : k \in DOMAIN GradePathMap}

\* Nodes a changed graph may carry beyond the agent's; the second is a tool
\* node by its name.
ExtraNodes == {"rewrite", "search_tool"}

\* "tool" in name.lower(), or the node's data being a ToolNode.
IsToolNode(name) == name = "search_tool"

\* Live graphs: the agent's graph, possibly with one node removed, one node
\* added and one edge dropped.
LiveGraphs ==
    {[nodes |-> ((Nodes \ removed) \cup added) \cup {START, END},
      edges |-> {e \in GraphEdges \ dropped :
                    e[1] \notin removed /\ e[2] \notin removed}] :
        removed \in {{}, {"grade"}, {"not_found"}},
        added \in {{}} \cup {{n} : n \in ExtraNodes},
        dropped \in {{}, {<<"retrieve", "grade">>}, {<<"grade", "not_found">>}}}

\* The expected structure _load_and_build_expected reads from the YAML file:
\* the agent's declared nodes and edges, with the counts the file states.
ExpectedStructures ==
    {[nodes |-> Nodes,
      n_nodes |-> n,
      n_tool_nodes |-> k,
      direct_edges |-> Edges,
      conditional_edges |->
          [classify |-> {IntentPathMap[i] : i \in DOMAIN IntentPathMap},
           grade |-> {GradePathMap[i] : i \in DOMAIN GradePathMap}]] :
        n \in {Cardinality(Nodes), Cardinality(Nodes) + 1},
        k \in {0, 1}}

\* all(ok for ok, _ in checks.values()) leaving the node count out.
AllPassedButCount(checks) == \A k \in DOMAIN checks \ {"node_count"} : checks[k]

\* all(ok for ok, _ in checks.values())
AllPassed(checks) == \A k \in DOMAIN checks : checks[k]

\* nodes_ok failing on an undeclared node as well.
NodesOkExact(missing, extra) == Cardinality(missing) = 0 /\ Cardinality(extra) = 0

\* nodes_ok = len(missing) == 0; the undeclared nodes play no part in it.
NodesOk(missing, extra) == Cardinality(missing) = 0

\* GraphStructureEvaluator._eval_structure
EvalStructure(g, expected) ==
    LET actual_nodes == g.nodes \ {START, END}
        actual_edges == g.edges
        n_actual == Cardinality(actual_nodes)
        count_ok == n_actual = expected.n_nodes
        n_tool == Cardinality({name \in g.nodes : IsToolNode(name)})
        tool_ok == n_tool = expected.n_tool_nodes
        missing == expected.nodes \ actual_nodes
        extra == actual_nodes \ expected.nodes
        nodes_ok == NodesOk(missing, extra)
        missing_direct == expected.direct_edges \ actual_edges
        direct_ok == Cardinality(missing_direct) = 0
        all_cond_ok ==
            \A src \in DOMAIN expected.conditional_edges :
                LET actual_dsts == {e[2] : e \in {a \in actual_edges : a[1] = src}}
                IN  \A dst \in expected.conditional_edges[src] : dst \in actual_dsts
        checks == [node_count |-> count_ok,
                   tool_node_count |-> tool_ok,
                   nodes_present |-> nodes_ok,
                   direct_edges |-> direct_ok,
                   conditional_edges |-> all_cond_ok]
    IN  [nodes_ok |-> nodes_ok,
         tool_nodes_ok |-> tool_ok,
         direct_edges_ok |-> direct_ok,
         conditional_edges_ok |-> all_cond_ok,
         node_count_ok |-> count_ok,
         all_ok |-> AllPassed(checks),
         n_nodes |-> n_actual,
         n_tool_nodes |-> n_tool,
         n_edges |-> Cardinality(actual_edges),
         missing_nodes |-> missing,
         extra_nodes |-> extra,
         missing_direct_edges |-> missing_direct]

\* One run of the structural evaluator.
EvalStructureRun ==
    /\ eval = NoEval
    /\ \E g \in LiveGraphs, expected \in ExpectedStructures :
         eval' = [op |-> "structure", g |-> g, expected |-> expected,
                  result |-> EvalStructure(g, expected)]
    /\ UNCHANGED agentVars

\* ---- GraphEvaluator._eval_routing

MaxCases == 2

\* Paths a routing case may expect or the live graph may take: the four
\* paths of the agent's graph, one cut short and one out of order.
RoutingPaths ==
    {<<"classify", "conversational">>,
     <<"classify", "off_topic">>,
     <<"classify", "retrieve", "grade", "generate">>,
     <<"classify", "retrieve", "grade", "not_found">>,
     <<"classify", "retrieve", "grade">>,
     <<"classify", "grade", "retrieve", "generate">>}

\* A routing case with the path its input made the live graph take: the
\* node names of the streamed updates, in order.
RoutingCases == [expected_path : RoutingPaths, actual_path : RoutingPaths]

RoutingSuites == UNION {[1..n -> RoutingCases] : n \in 1..MaxCases}

\* A comparison that stops at the end of the shorter list.
ListEqualsZip(a, b) ==
    \A i \in 1..(IF Len(a) < Len(b) THEN Len(a) ELSE Len(b)) : a[i] = b[i]

\* Python's == on two lists: same length and equal element by element.
ListEquals(a, b) == Len(a) = Len(b) /\ \A i \in 1..Len(a) : a[i] = b[i]

\* The rows _eval_routing builds, one per case.
EvalRouting(suite) ==
    [i \in 1..Len(suite) |->
        [expected_path |-> suite[i].expected_path,
         actual_path |-> suite[i].actual_path,
         pass |-> ListEquals(suite[i].actual_path, suite[i].expected_path)]]

\* df["pass"].mean(), as the fraction passed / rows.
PassMean(rows) ==
    [passed |-> Cardinality({i \in 1..Len(rows) : rows[i].pass}), rows |-> Len(rows)]

\* One run of the routing evaluation and of the accuracy taken from it.
EvalRoutingRun ==
    /\ eval = NoEval
    /\ \E suite \in RoutingSuites :
         eval' = [op |-> "routing", suite |-> suite, rows |-> EvalRouting(suite),
                  acc_routing |-> PassMean(EvalRouting(suite))]
    /\ UNCHANGED agentVars

\* ---- lash_metrics.latency_to_score
\*
\* Latencies are in tenths of a second and scores in 300ths, the units in
\* which every value of the function on such latencies is a whole number.

MaxLatency == 120

\* good: 2.0 s, neutral: 5.0 s
LATENCY_THRESHOLDS == [good |-> 20, neutral |-> 50]

\* latency_to_score as three flat steps: full, half and no credit.
LatencyToScoreStep(latency) ==
    LET GOOD == LATENCY_THRESHOLDS.good
        NEUTRAL == LATENCY_THRESHOLDS.neutral
    IN  IF latency < GOOD THEN 300
        ELSE IF latency < NEUTRAL THEN 150
        ELSE 0

\* latency_to_score giving half credit to every latency past neutral.
LatencyToScoreFlat(latency) ==
    LET GOOD == LATENCY_THRESHOLDS.good
        NEUTRAL == LATENCY_THRESHOLDS.neutral
    IN  IF latency < GOOD THEN 300
        ELSE IF latency < NEUTRAL
             THEN 300 - ((latency - GOOD) * 150) \div (NEUTRAL - GOOD)
        ELSE 150

\* 1.0; 1.0 - (latency - GOOD) / (NEUTRAL - GOOD) * 0.5;
\* max(0.0, 0.5 - (latency - NEUTRAL) / 10.0)
LatencyToScore(latency) ==
    LET GOOD == LATENCY_THRESHOLDS.good
        NEUTRAL == LATENCY_THRESHOLDS.neutral
        rest == 150 - ((latency - NEUTRAL) * 300) \div 100
    IN  IF latency < GOOD THEN 300
        ELSE IF latency < NEUTRAL
             THEN 300 - ((latency - GOOD) * 150) \div (NEUTRAL - GOOD)
        ELSE IF rest > 0 THEN rest ELSE 0

\* One call of latency_to_score.
LatencyToScoreCall ==
    /\ eval = NoEval
    /\ \E latency \in 0..MaxLatency :
         eval' = [op |-> "latency_to_score", latency |-> latency,
                  score |-> LatencyToScore(latency)]
    /\ UNCHANGED agentVars

\* ---- LashEvaluator._run_evaluation
\*
\* Means, weights and thresholds are in hundredths, the composite in
\* ten-thousandths.

\* WEIGHTS with latency counted twice as much.
WeightsLatencyDoubled ==
    [latency |-> 20, correctness |-> 40, safety |-> 20, helpfulness |-> 30]

WEIGHTS == [latency |-> 10, correctness |-> 40, safety |-> 20, helpfulness |-> 30]

PASS_THRESHOLDS ==
    [latency |-> 20, correctness |-> 80, safety |-> 70, helpfulness |-> 80,
     lash |-> 75]

\* Dimension means: the ends of the range, each threshold, and a value just
\* under each threshold.
Means == {0, 15, 20, 65, 70, 75, 80, 100}

\* lash_pass looking at the composite alone.
LashPassCompositeOnly(mean_L, mean_A, mean_S, mean_H, mean_lash) ==
    mean_lash >= PASS_THRESHOLDS.lash * 100

\* lash_pass = all([...]) over the four dimensions and the composite.
LashPass(mean_L, mean_A, mean_S, mean_H, mean_lash) ==
    /\ mean_L >= PASS_THRESHOLDS.latency
    /\ mean_A >= PASS_THRESHOLDS.correctness
    /\ mean_S >= PASS_THRESHOLDS.safety
    /\ mean_H >= PASS_THRESHOLDS.helpfulness
    /\ mean_lash >= PASS_THRESHOLDS.lash * 100

\* mean_lash: the weighted sum of the four means.
MeanLash(mean_L, mean_A, mean_S, mean_H) ==
    mean_L * WEIGHTS.latency + mean_A * WEIGHTS.correctness
        + mean_S * WEIGHTS.safety + mean_H * WEIGHTS.helpfulness

\* One run of the scoring at the end of _run_evaluation.
RunEvaluation ==
    /\ eval = NoEval
    /\ \E mean_L, mean_A, mean_S, mean_H \in Means :
         LET mean_lash == MeanLash(mean_L, mean_A, mean_S, mean_H)
         IN  eval' = [op |-> "lash", mean_L |-> mean_L, mean_A |-> mean_A,
                      mean_S |-> mean_S, mean_H |-> mean_H,
                      mean_lash |-> mean_lash,
                      lash_pass |-> LashPass(mean_L, mean_A, mean_S, mean_H, mean_lash)]
    /\ UNCHANGED agentVars

\* ---- the prompts of classify, conversational and generate

\* Earlier turns of the thread a node is run on: more than a few.
MaxEarlierTurns == 5

\* A SystemMessage: its instruction and the context block it carries, if any.
SystemMessage(content, context) ==
    [type |-> "system", content |-> content, context |-> context, id |-> 0]

\* What was said in the i-th message of a thread.
Utterance(i) == "said " \o ToString(i)

\* The AgentState a node is given on a thread with `earlier` completed
\* handbook turns and the current user message: the messages of the earlier
\* turns and the fields they left, then what the current turn's nodes before
\* this one wrote.
ThreadState(node, earlier, documents) ==
    LET messages == [i \in 1..(2 * earlier + 1) |->
                        IF i % 2 = 1 THEN HumanMessage(Utterance(i), i)
                        ELSE AIMessage(Utterance(i), i)]
        input == [messages |-> messages, source |-> "handbook"]
        left == IF earlier = 0 THEN EmptyState
                ELSE [intent |-> "handbook", documents |-> <<"p1">>,
                      relevant |-> TRUE, answer |-> Utterance(2 * earlier)]
        written == CASE node = "classify" -> EmptyState
                     [] node = "conversational" -> ClassifyNode(input, "conversational")
                     [] node = "generate" ->
                            [intent |-> "handbook", documents |-> documents,
                             relevant |-> TRUE]
    IN  MergeUpdate(MergeUpdate(left, written), input)

\* The list _classify gives the classifier: its instruction and a new
\* HumanMessage with the content of the last human message.
ClassifyPrompt(state) ==
    <<SystemMessage("Classify the intent of the user message", <<>>),
      HumanMessage(LastHuman(state).content, 0)>>

\* prompt_messages of _conversational: the instruction, then state["messages"].
ConversationalPrompt(state) ==
    <<SystemMessage("You are a friendly assistant", <<>>)>> \o state.messages

\* prompt_messages of _generate: the instruction with the context block
\* built from state["documents"], then state["messages"].
GeneratePrompt(state) ==
    <<SystemMessage("You are a helpful assistant", state.documents)>> \o state.messages

PromptOf(node, state) ==
    CASE node = "classify" -> ClassifyPrompt(state)
      [] node = "conversational" -> ConversationalPrompt(state)
      [] node = "generate" -> GeneratePrompt(state)

\* One of the three nodes builds the input of its capability.
PromptCall ==
    /\ eval = NoEval
    /\ \E node \in {"classify", "conversational", "generate"},
          earlier \in 0..MaxEarlierTurns, documents \in RetrieverResults :
         LET state == ThreadState(node, earlier, documents)
         IN  eval' = [op |-> "prompt", node |-> node, earlier |-> earlier,
                      documents |-> documents, state |-> state,
                      prompt |-> PromptOf(node, state)]
    /\ UNCHANGED agentVars

\* ---- the evaluation harness: evaluation/main.py
\*
\* main builds one agent and runs the graph evaluation and then the
\* end-to-end evaluation on it. `eval` holds the harness's progress: the
\* number of cases of each kind, the run, the cases done in it, the agent's
\* checkpointer and a log of the cases executed.

\* The cases that execute on a thread id, in the order the harness runs
\* them: classify, retrieve and routing cases of the graph evaluation, then
\* the cases of the end-to-end evaluation.
CaseList(sizes) ==
    LET cases(kind) == [j \in 1..sizes[kind] |-> [kind |-> kind, i |-> j - 1]]
    IN  cases("classify") \o cases("retrieve") \o cases("routing") \o cases("lash")

\* Every case on f"eval-{i}", whatever its kind.
CaseThreadIdNoKind(kind, i) == "eval-" \o ToString(i)

\* f"eval-cls-{i}", f"eval-ret-{i}", f"eval-route-{i}", f"eval-{i}"
CaseThreadId(kind, i) ==
    CASE kind = "classify" -> "eval-cls-" \o ToString(i)
      [] kind = "retrieve" -> "eval-ret-" \o ToString(i)
      [] kind = "routing" -> "eval-route-" \o ToString(i)
      [] kind = "lash" -> "eval-" \o ToString(i)

\* MemorySaver: a thread id without a checkpoint has the empty state.
SaverGet(memory, thread_id) ==
    IF thread_id \in DOMAIN memory THEN memory[thread_id] ELSE EmptyState

SaverPut(memory, thread_id, state) ==
    [t \in DOMAIN memory \cup {thread_id} |->
        IF t = thread_id THEN state ELSE memory[t]]

\* What the capabilities give on a case's input (the model runs at
\* temperature 0): one kind of case for each of the four paths.
CaseOutcome(kind) ==
    CASE kind = "classify" -> [intent |-> "conversational", relevant |-> TRUE]
      [] kind = "retrieve" -> [intent |-> "handbook", relevant |-> TRUE]
      [] kind = "routing" -> [intent |-> "off_topic", relevant |-> TRUE]
      [] kind = "lash" -> [intent |-> "handbook", relevant |-> FALSE]

\* One run of the graph from START to END on `state`, the thread's
\* checkpoint: the input is merged, then each node's update in turn.
RunGraph(state, question, n, outcome) ==
    LET s0 == MergeUpdate(state, InvokeInput(question, HumanId(n)))
        s1 == MergeUpdate(s0, ClassifyNode(s0, outcome.intent))
        after_classify == IntentPathMap[RouteIntent(s1)]
        s2 == MergeUpdate(s1, RetrieveNode(s1, <<"p1">>))
        s3 == MergeUpdate(s2, GradeNode(s2, outcome.relevant))
        after_grade == GradePathMap[RouteGrade(s3)]
    IN  IF after_classify = "conversational"
        THEN MergeUpdate(s1, ConversationalNode(s1, AIMessage("a1", AiId(n))))
        ELSE IF after_classify = "off_topic"
        THEN MergeUpdate(s1, OffTopicNode(s1, AiId(n)))
        ELSE IF after_grade = "generate"
        THEN MergeUpdate(s3, GenerateNode(s3, AIMessage("a1", AiId(n))))
        ELSE MergeUpdate(s3, NotFoundNode(s3, AiId(n)))

\* main: a new HandbookAgent, its MemorySaver empty, and the case files
\* loaded.
HarnessStart ==
    /\ eval = NoEval
    /\ \E sizes \in [{"classify", "retrieve", "routing", "lash"} -> 1..MaxCases] :
         eval' = [op |-> "harness", sizes |-> sizes, run |-> 1, done |-> 0,
                  memory |-> [t \in {} |-> EmptyState], log |-> <<>>]
    /\ UNCHANGED agentVars

\* The next case of the run: one turn on the case's thread id.
HarnessCase ==
    /\ eval.op = "harness"
    /\ eval.done < Len(CaseList(eval.sizes))
    /\ LET case == CaseList(eval.sizes)[eval.done + 1]
           thread_id == CaseThreadId(case.kind, case.i)
           before == SaverGet(eval.memory, thread_id)
           after == RunGraph(before, Utterance(case.i), Len(eval.log) + 1,
                             CaseOutcome(case.kind))
       IN  eval' = [eval EXCEPT
                      !.done = @ + 1,
                      !.memory = SaverPut(@, thread_id, after),
                      !.log = Append(@, [run |-> eval.run, kind |-> case.kind,
                                         i |-> case.i, thread_id |-> thread_id,
                                         before |-> before, after |-> after])]
    /\ UNCHANGED agentVars

\* The same agent is evaluated a second time.
HarnessRerun ==
    /\ eval.op = "harness"
    /\ eval.run = 1
    /\ eval.done = Len(CaseList(eval.sizes))
    /\ eval' = [eval EXCEPT !.run = 2, !.done = 0]
    /\ UNCHANGED agentVars

NextHarness ==
    \/ HarnessStart
    \/ HarnessCase
    \/ HarnessRerun

SpecHarness == Init /\ [][NextHarness]_vars


NextPure ==
    \/ Deflect
    \/ EvalStructureRun
    \/ EvalRoutingRun
    \/ LatencyToScoreCall
    \/ RunEvaluation
    \/ PromptCall

SpecPure == Init /\ [][NextPure]_vars

\* C22: a turn that reaches off_topic or not_found answers with the English
\* template verbatim when the last user message is in English, and with the
\* template translated, not the English text, when it is in another
\* language; the appended assistant message carries the same text.
C22_DeflectionInUserLanguage ==
    eval.op \in {"off_topic", "not_found"} =>
        /\ eval.update.messages[1].content = eval.update.answer
        /\ LanguageOf(eval.question) = "en" =>
              eval.update.answer = Template(eval.op)
        /\ LanguageOf(eval.question) # "en" =>
              eval.update.answer # Template(eval.op)

\* The five per-check booleans of a structural evaluation's result.
StructureChecks(result) ==
    {result.node_count_ok, result.tool_nodes_ok, result.nodes_ok,
     result.direct_edges_ok, result.conditional_edges_ok}

\* C24: the structural evaluator's all_ok is true exactly when its five
\* per-check booleans are all true: node count, tool-node count, node set,
\* direct edges and conditional-edge targets.
C24_AllOkIsConjunction ==
    eval.op = "structure" =>
        (eval.result.all_ok <=> StructureChecks(eval.result) = {TRUE})

\* An evaluation in which only the node count fails, and all_ok is false.
C24_Witness ==
    /\ eval.op = "structure"
    /\ ~eval.result.node_count_ok
    /\ eval.result.tool_nodes_ok /\ eval.result.nodes_ok
    /\ eval.result.direct_edges_ok /\ eval.result.conditional_edges_ok
    /\ ~eval.result.all_ok

\* C25: the node-set check passes exactly when the live graph's nodes,
\* START and END apart, are the declared expected nodes: it fails on a
\* missing expected node and on a node that is not declared.
C25_NodeSetMatch ==
    eval.op = "structure" =>
        (eval.result.nodes_ok <=>
            eval.g.nodes \ {START, END} = eval.expected.nodes)

\* C25, amended: the node-set check passes exactly when every declared
\* expected node is in the live graph; a live node that is not declared does
\* not fail it and is reported in extra_nodes.
C25_NodeSetPresence ==
    eval.op = "structure" =>
        /\ eval.result.nodes_ok <=> eval.expected.nodes \subseteq eval.g.nodes
        /\ eval.result.missing_nodes = eval.expected.nodes \ eval.g.nodes
        /\ eval.result.extra_nodes =
              (eval.g.nodes \ {START, END}) \ eval.expected.nodes

\* A live graph with every expected node and one undeclared node has passed
\* the node-set check, the undeclared node being reported.
C25_Witness ==
    /\ eval.op = "structure"
    /\ eval.result.nodes_ok
    /\ eval.result.extra_nodes = {"rewrite"}
    /\ eval.result.missing_nodes = {}

\* The names a structural evaluation's result carries: node names, and the
\* ends of the edges it lists.
NamedNodes(result) == result.missing_nodes \cup result.extra_nodes

\* C26: every omission the structural evaluator finds is in its result by
\* name: each expected node absent from the live graph, each required
\* direct edge absent, and each required conditional-edge target absent.
C26_OmissionsNamed ==
    eval.op = "structure" =>
        LET g == eval.g
            expected == eval.expected
            result == eval.result
        IN  /\ \A n \in expected.nodes \ g.nodes : n \in result.missing_nodes
            /\ \A e \in expected.direct_edges \ g.edges :
                  e \in result.missing_direct_edges
            /\ \A src \in DOMAIN expected.conditional_edges :
                  \A dst \in expected.conditional_edges[src] :
                      <<src, dst>> \notin g.edges =>
                          \/ <<src, dst>> \in result.missing_direct_edges
                          \/ dst \in NamedNodes(result)

\* C27: a routing case passes exactly when the nodes the live graph
\* visited, in execution order, are the case's expected path, same nodes,
\* same order, same length; routing accuracy is the fraction of cases that
\* pass.
C27_RoutingPass ==
    eval.op = "routing" =>
        LET matching == {i \in 1..Len(eval.suite) :
                            eval.suite[i].actual_path = eval.suite[i].expected_path}
        IN  /\ Len(eval.rows) = Len(eval.suite)
            /\ \A i \in 1..Len(eval.suite) : eval.rows[i].pass <=> i \in matching
            /\ eval.acc_routing.passed = Cardinality(matching)
            /\ eval.acc_routing.rows = Len(eval.suite)

\* Of two cases, one passes and the other fails because the graph stopped
\* one node short of the expected path: accuracy one half.
C27_Witness ==
    /\ eval.op = "routing"
    /\ Len(eval.suite) = 2
    /\ eval.rows[1].pass
    /\ ~eval.rows[2].pass
    /\ eval.suite[2].actual_path = <<"classify", "retrieve", "grade">>
    /\ eval.suite[2].expected_path = <<"classify", "retrieve", "grade", "generate">>
    /\ eval.acc_routing = [passed |-> 1, rows |-> 2]

C29_LatencyScoreShape ==
    eval.op = "latency_to_score" =>
        LET latency == eval.latency
            score == eval.score
        IN  /\ latency < 20 => score = 300
            /\ latency = 20 => score = 300
            /\ latency = 50 => score = 150
            /\ (latency >= 20 /\ latency <= 50) =>
                  (300 - score) * (50 - 20) = (300 - 150) * (latency - 20)
            /\ latency > 50 =>
                  /\ score < 150
                  /\ score >= 0
                  /\ LatencyToScore(latency + 1) <= score
                  /\ score > 0 => LatencyToScore(latency + 1) < score

\* A latency past 5 s has a score strictly between 0 and 0.5.
C29_Witness ==
    /\ eval.op = "latency_to_score"
    /\ eval.latency = 80
    /\ eval.score = 60

\* C30: the composite is the sum of the four dimension means weighted 0.10
\* (latency), 0.40 (correctness), 0.20 (safety) and 0.30 (helpfulness); the
\* weights sum to 1, so with every mean in [0, 1] the composite is in [0, 1]
\* and is 1 only when every mean is 1.
C30_CompositeWeightedSum ==
    eval.op = "lash" =>
        /\ eval.mean_lash =
              10 * eval.mean_L + 40 * eval.mean_A + 20 * eval.mean_S + 30 * eval.mean_H
        /\ WEIGHTS.latency + WEIGHTS.correctness + WEIGHTS.safety
              + WEIGHTS.helpfulness = 100
        /\ eval.mean_lash >= 0
        /\ eval.mean_lash <= 10000
        /\ eval.mean_lash = 10000 =>
              eval.mean_L = 100 /\ eval.mean_A = 100 /\ eval.mean_S = 100
                  /\ eval.mean_H = 100

\* Every mean is 1 but latency, and the composite is under 1 by latency's
\* share.
C30_Witness ==
    /\ eval.op = "lash"
    /\ eval.mean_L = 0
    /\ eval.mean_A = 100 /\ eval.mean_S = 100 /\ eval.mean_H = 100
    /\ eval.mean_lash = 9000

\* C31: for every non-negative latency, latency_to_score is in [0, 1]; a
\* slower turn never scores higher than a faster one; the score has no jump
\* at 2 s or at 5 s (a tenth of a second more costs at most the steepest
\* slope's 1/60, at the thresholds as elsewhere, and the pieces meet: 1 at
\* 2 s, 0.5 at 5 s); and it is 0 for every latency of 10 s or more.
C31_LatencyScoreRange ==
    eval.op = "latency_to_score" =>
        LET latency == eval.latency
            score == eval.score
            slower == LatencyToScore(latency + 1)
        IN  /\ score >= 0 /\ score <= 300
            /\ \A faster \in 0..latency : LatencyToScore(faster) >= score
            /\ score - slower <= 5
            /\ latency \in {19, 20} => score = 300
            /\ latency = 49 => score - slower = 5
            /\ latency = 50 => score = 150 /\ score - slower = 3
            /\ latency >= 100 => score = 0

\* A latency of exactly 10 s scores 0, a tenth of a second under it does not.
C31_Witness ==
    /\ eval.op = "latency_to_score"
    /\ eval.latency = 100
    /\ eval.score = 0
    /\ LatencyToScore(99) = 3

\* The history messages of a prompt: all but its instruction.
History(prompt) == Tail(prompt)

\* The contents of the thread's messages of earlier turns.
EarlierSaid(state, earlier) == {state.messages[i].content : i \in 1..(2 * earlier)}

\* C32: the classifier's input holds the current user message and,
\* whenever the thread has earlier turns, messages of its most recent earlier
\* turns; the number of those does not grow with the thread (the longest
\* thread gets no more of them than a thread one turn shorter).
C32_ClassifierSeesRecentTurns ==
    (eval.op = "prompt" /\ eval.node = "classify") =>
        LET said == {History(eval.prompt)[i].content : i \in 1..Len(History(eval.prompt))}
            shorter == ThreadState("classify", eval.earlier - 1, eval.documents)
        IN  /\ LastHuman(eval.state).content \in said
            /\ eval.earlier > 0 => said \cap EarlierSaid(eval.state, eval.earlier) # {}
            /\ eval.earlier = MaxEarlierTurns =>
                  Len(eval.prompt) = Len(ClassifyPrompt(shorter))

\* C33: the conversational node's prompt carries no document context and
\* only the last turns of the thread, a trailing part of its messages whose
\* length is bounded (the longest thread gets no more history than a thread
\* one turn shorter); the generate node's prompt carries the context built
\* from the turn's documents and every message of the thread.
C33_ConversationalWindowGenerateAll ==
    eval.op = "prompt" =>
        LET messages == eval.state.messages
            history == History(eval.prompt)
            shorter == ThreadState(eval.node, eval.earlier - 1, eval.documents)
        IN  /\ eval.node = "conversational" =>
                  /\ eval.prompt[1].context = <<>>
                  /\ Len(history) <= Len(messages)
                  /\ history = SubSeq(messages, Len(messages) - Len(history) + 1,
                                      Len(messages))
                  /\ eval.earlier = MaxEarlierTurns =>
                        Len(history) = Len(History(ConversationalPrompt(shorter)))
            /\ eval.node = "generate" =>
                  /\ eval.prompt[1].context = eval.documents
                  /\ history = messages

\* C34: while a turn is suspended in a capability call, a turn on another
\* thread id is never held back: an idle worker can start one, and one that
\* is running can take its next step, node after node up to its response.
C34_NoGlobalLock ==
    \A r1, r2 \in Requests :
        (r1 # r2 /\ pc[r1] \in CapabilityNodes) =>
            /\ (pc[r2] = "idle" /\ "agent" \in resources /\ turns < MaxTurns) =>
                  \A t \in AskThreadIds :
                      ThreadOf(t) # thr[r1] =>
                          ENABLED (\E q \in Questions : Ask(r2, q, t))
            /\ (pc[r2] # "idle" /\ thr[r2] # thr[r1]) => ENABLED TurnStep(r2)

\* The first turn is still inside its classifier call, and the second turn,
\* started after it on another thread id, has run its four nodes and
\* returned its answer.
C34_Witness ==
    \E r1, r2 \in Requests :
        /\ pc[r1] = "classify" /\ turn[r1].n = 1
        /\ Completed(r2) /\ turn[r2].n = 2
        /\ thr[r1] # thr[r2]
        /\ turn[r2].path = <<"classify", "retrieve", "grade", "generate">>

\* A turn of the request has ended.
Ended(r) == pc[r] = "idle" /\ turn[r].n > 0

\* C35: a started turn whose capability calls all return ends: it does not
\* stay in classify, retrieve, grade or any other node for ever; and a turn
\* that has ended either ran to END after generate, conversational,
\* off_topic or not_found and returned its answer, or failed with an error.
C35_TurnsTerminate ==
    /\ \A r \in Requests :
          (pc[r] \notin {"idle", Hung}) ~> (pc[r] \in {"idle", Hung})
    /\ [](\A r \in Requests :
            (Ended(r) /\ lifespan = "serving") =>
                \/ /\ resp[r].status = 200
                   /\ turn[r].raised = None
                   /\ Last(turn[r].path) \in TerminalNodes
                \/ /\ resp[r].status = 500
                   /\ turn[r].raised # None)

\* A turn has ended with the error its grader raised, and the next turn on
\* the same thread id has ended at END after not_found with its answer.
C35_Witness ==
    \E r \in Requests :
        /\ Ended(r) /\ turn[r].n = 2
        /\ Len(turn[r].before) = 1
        /\ resp[r].status = 200
        /\ turn[r].path = <<"classify", "retrieve", "grade", "not_found">>

\* C36: a turn whose capability call never returns does not hang for ever:
\* a timeout ends the call and the turn fails with an error surfaced to the
\* caller.
C36_HungCallTimesOut ==
    \A r \in Requests : (pc[r] = Hung) ~> (pc[r] = "idle" /\ resp[r].status = 500)

\* C37: in a handbook-path turn, retrieve has completed before grade starts
\* and is asked the turn's own user message; the passages grade reads, and
\* the passages generate builds its context from, are the ones retrieve
\* returned in this turn, never those an earlier turn left on the thread.
C37_PassagesOfThisTurn ==
    \A r \in Requests :
        /\ pc[r] = "retrieve" =>
              /\ LastHuman(chan[r]).id = HumanId(turn[r].n)
              /\ RetrieveQuery(chan[r]) = turn[r].question
        /\ pc[r] \in {"grade", "route_grade", "generate"} =>
              /\ Len(turn[r].path) >= 2
              /\ turn[r].path[2] = "retrieve"
              /\ chan[r].documents = turn[r].got[2]
        /\ pc[r] = "grade" =>
              GraderCall(LastHuman(chan[r]).content, chan[r].documents, TRUE).documents
                  = turn[r].got[2]
        /\ pc[r] = "generate" =>
              GeneratePrompt(chan[r])[1].context = turn[r].got[2]

\* The first turn on a thread id retrieved p1 and completed; the second
\* turn on it retrieved p2 and is about to generate from p2.
C37_Witness ==
    \E r1, r2 \in Requests :
        /\ Completed(r1) /\ turn[r1].n = 1
        /\ turn[r1].path = <<"classify", "retrieve", "grade", "generate">>
        /\ turn[r1].got[2] = <<"p1">>
        /\ pc[r2] = "generate" /\ turn[r2].n = 2 /\ thr[r2] = thr[r1]
        /\ Len(turn[r2].before) = 2
        /\ turn[r2].got[2] = <<"p2">>
        /\ chan[r2].documents = <<"p2">>

\* C38: classify runs once in a turn and the intent it wrote stays as it is
\* for the rest of the turn; the branch after classify reads the intent the
\* classifier returned in this turn and the branch after grade the
\* relevance the grader returned in this turn, never a value an earlier turn
\* left on the thread.
C38_RoutingOnFreshValues ==
    \A r \in Requests :
        /\ Cardinality({i \in 1..Len(turn[r].path) : turn[r].path[i] = "classify"}) <= 1
        /\ pc[r] \notin {"idle", "classify"} =>
              /\ turn[r].path[1] = "classify"
              /\ Has(chan[r], "intent")
              /\ chan[r].intent = turn[r].got[1]
        /\ pc[r] = "route_intent" =>
              IntentPathMap[RouteIntent(chan[r])]
                  = IntentPathMap[RouteIntent([intent |-> turn[r].got[1]])]
        /\ pc[r] = "route_grade" =>
              /\ turn[r].path[3] = "grade"
              /\ Has(chan[r], "relevant")
              /\ chan[r].relevant = turn[r].got[3]
              /\ GradePathMap[RouteGrade(chan[r])]
                    = GradePathMap[RouteGrade([relevant |-> turn[r].got[3]])]

\* The first turn on a thread id was a handbook turn that generated; the
\* second turn on it was classified off_topic and has been routed to
\* off_topic, the relevance of the first turn still on the thread.
C38_Witness ==
    \E r1, r2 \in Requests :
        /\ Completed(r1) /\ turn[r1].n = 1 /\ turn[r1].got[1] = "handbook"
        /\ Last(turn[r1].path) = "generate"
        /\ pc[r2] = "off_topic" /\ turn[r2].n = 2 /\ thr[r2] = thr[r1]
        /\ Len(turn[r2].before) = 2
        /\ turn[r2].got[1] = "off_topic"
        /\ chan[r2].intent = "off_topic"
        /\ chan[r2].relevant

\* The cases a harness run has executed, by their place in the log.
CasesOfRun(run) == {k \in 1..Len(eval.log) : eval.log[k].run = run}

\* C39: in the first evaluation of a new agent every case runs on a thread
\* id no other case of the run uses and starts from an empty state; in a
\* second evaluation of the same agent every case runs on the thread id its
\* counterpart used and starts from the state, messages included, the first
\* run left there.
C39_CasesOnOwnThreads ==
    eval.op = "harness" =>
        LET log == eval.log
        IN  /\ \A j, k \in CasesOfRun(1) :
                  j # k => log[j].thread_id # log[k].thread_id
            /\ \A k \in CasesOfRun(1) :
                  /\ DOMAIN log[k].before = {}
                  /\ Len(Messages(log[k].after)) = 2
            /\ \A k \in CasesOfRun(2) :
                  \E j \in CasesOfRun(1) :
                      /\ log[j].kind = log[k].kind /\ log[j].i = log[k].i
                      /\ log[j].thread_id = log[k].thread_id
                      /\ log[k].before = log[j].after
                      /\ Len(Messages(log[k].after)) = 4

\* Both runs are over: each kind had two cases, all eight of the first run
\* on threads of their own, and the last case of the second run started
\* from the two messages its counterpart left.
C39_Witness ==
    /\ eval.op = "harness"
    /\ eval.run = 2
    /\ Len(eval.log) = 16
    /\ Cardinality({eval.log[k].thread_id : k \in CasesOfRun(1)}) = 8
    /\ eval.log[16].thread_id = "eval-1"
    /\ Len(Messages(eval.log[16].before)) = 2

====
